---------------------------- MODULE Spec2Model ----------------------------
(***************************************************************************)
(* A model of gen_release_notes.py: the collection of commit titles        *)
(* (Commit, catalogue_rough_notes), their classification (process_notes    *)
(* and its helpers), the text normalisation (sentence) and the rendering   *)
(* (notes_from_template).                                                  *)
(*                                                                         *)
(* A Python str is a sequence of one-character strings, so that strip,     *)
(* upper, replace and the regular expressions are computed character by    *)
(* character as the code computes them.                                    *)
(***************************************************************************)
EXTENDS Integers, Sequences, FiniteSets, TLC

(***************************************************************************)
(* Bounds of the model.                                                    *)
(***************************************************************************)
\* longest text given to sentence() in SpecSentence
MaxLen == 4
\* total number of words in the note list given to process_notes
MaxWords == 2
\* longest commit range walked by catalogue_rough_notes
MaxCommits == 6
\* most entries of one bucket given to notes_from_template
MaxItems == 1
\* most calls of sentence() in a row on one text
MaxCalls == 3

(***************************************************************************)
(* Characters.                                                             *)
(***************************************************************************)
Uppers == <<"A", "B", "C", "D", "E", "F", "G", "H", "I", "J", "K", "L", "M", "N", "O", "P", "Q", "R", "S", "T", "U", "V", "W", "X", "Y", "Z">>

Lowers == <<"a", "b", "c", "d", "e", "f", "g", "h", "i", "j", "k", "l", "m", "n", "o", "p", "q", "r", "s", "t", "u", "v", "w", "x", "y", "z">>

\* the characters str.strip() removes and the pattern \s matches
Whitespace == {" ", "\t", "\n", "\r", "\f"}

IsSpace(c) == c \in Whitespace

\* str.upper() and str.lower() of the letters
UpperOf == [c \in {Lowers[i] : i \in 1..Len(Lowers)} |-> Uppers[CHOOSE i \in 1..Len(Lowers) : Lowers[i] = c]]

LowerOf == [c \in {Uppers[i] : i \in 1..Len(Uppers)} |-> Lowers[CHOOSE i \in 1..Len(Uppers) : Uppers[i] = c]]

IsUpper(c) == c \in DOMAIN LowerOf

\* str.upper() of one character
Upper(c) == IF c \in DOMAIN UpperOf THEN UpperOf[c] ELSE c

\* str.lower() of one character: how re.IGNORECASE compares
Lower(c) == IF c \in DOMAIN LowerOf THEN LowerOf[c] ELSE c

LowerAll(s) == [k \in 1..Len(s) |-> Lower(s[k])]

(***************************************************************************)
(* str.strip(), str.strip("."), str.startswith, str.replace.               *)
(***************************************************************************)
RECURSIVE LStrip(_, _)
LStrip(s, drop) == IF s # <<>> /\ Head(s) \in drop THEN LStrip(Tail(s), drop) ELSE s

RECURSIVE RStrip(_, _)
RStrip(s, drop) == IF s # <<>> /\ s[Len(s)] \in drop THEN RStrip(SubSeq(s, 1, Len(s) - 1), drop) ELSE s

Strip(s, drop) == RStrip(LStrip(s, drop), drop)

\* pat occurs in s at position i, case-sensitively
MatchAt(s, i, pat) == /\ i >= 1
                      /\ i + Len(pat) - 1 <= Len(s)
                      /\ \A k \in 1..Len(pat) : s[i + k - 1] = pat[k]

\* pat (lower case) occurs in s at position i under re.IGNORECASE
MatchAtI(s, i, pat) == MatchAt(LowerAll(s), i, pat)

StartsWith(s, pat) == MatchAt(s, 1, pat)

RECURSIVE Replace(_, _, _)
Replace(s, old, new) == IF s = <<>> THEN <<>> ELSE IF MatchAt(s, 1, old) THEN new \o Replace(SubSeq(s, Len(old) + 1, Len(s)), old, new) ELSE <<Head(s)>> \o Replace(Tail(s), old, new)

\* re.search of a literal, and of a literal that follows a \s
Contains(s, pat) == \E i \in 1..Len(s) : MatchAt(s, i, pat)

ContainsI(s, pat) == LET l == LowerAll(s) IN \E i \in 1..Len(l) : MatchAt(l, i, pat)

SpaceThenI(s, pat) == LET l == LowerAll(s) IN \E i \in 1..Len(l) : IsSpace(l[i]) /\ MatchAt(l, i + 1, pat)

\* re.search of \s.*pat : a whitespace character, then pat anywhere after it
SpaceAnyThen(s, pat) == \E i \in 1..Len(s) : IsSpace(s[i]) /\ \E j \in (i + 1)..Len(s) : MatchAt(s, j, pat)

(***************************************************************************)
(* The raised exceptions, as the value of a call that raised.              *)
(***************************************************************************)
IndexError == <<"IndexError">>

(***************************************************************************)
(* sentence(text): text.strip().strip("."), then the first character in    *)
(* upper case.  text[0] of an empty string raises IndexError.              *)
(***************************************************************************)
\* a variant with the two strips in the other order: text.strip(".").strip()
sentence_swapped(text) == LET t == Strip(Strip(text, {"."}), Whitespace) IN IF t = <<>> THEN IndexError ELSE <<Upper(t[1])>> \o Tail(t)

sentence(text) == LET t == Strip(Strip(text, Whitespace), {"."}) IN IF t = <<>> THEN IndexError ELSE <<Upper(t[1])>> \o Tail(t)

(***************************************************************************)
(* The compiled patterns.  RE_X(s) is TRUE when re.search(RE_X, s) finds a *)
(* match; an optional trailing character class ([\s,!\?\._-]?) never       *)
(* decides whether a match exists.  Patterns compiled with re.IGNORECASE   *)
(* are matched against the lower-cased text.  Every text matched is one    *)
(* line (an element of str.splitlines(), or made of words and spaces), so  *)
(* `.` matches each of its characters.                                     *)
(***************************************************************************)
\* "to *Calculator" at position i of the lower-cased text l
ToCalculator(l, i) == MatchAt(l, i, <<"t", "o">>) /\ \E j \in (i + 2)..Len(l) : (\A k \in (i + 2)..(j - 1) : l[k] = " ") /\ MatchAt(l, j, <<"c", "a", "l", "c", "u", "l", "a", "t", "o", "r">>)

\* (\s.*Options[\s,!\?\._-]?)|(.*Option (in)?to *Calculator[\s,!\?\._-]?), IGNORECASE
RE_OPTIONS(s) == LET l == LowerAll(s) IN \/ SpaceAnyThen(l, <<"o", "p", "t", "i", "o", "n", "s">>)
                                         \/ \E i \in 1..Len(l) : MatchAt(l, i, <<"o", "p", "t", "i", "o", "n", " ">>) /\ (ToCalculator(l, i + 7) \/ (MatchAt(l, i + 7, <<"i", "n">>) /\ ToCalculator(l, i + 9)))

\* \s.*Calculator[\s,!\?\._-]?  (case-sensitive)
RE_CALCULATOR(s) == SpaceAnyThen(s, <<"C", "a", "l", "c", "u", "l", "a", "t", "o", "r">>)

\* support( for)?, IGNORECASE
RE_SUPPORT_FOR(s) == ContainsI(s, <<"s", "u", "p", "p", "o", "r", "t">>)

\* (\saar[\s,!\?\._-]?)|(java[\s,!\?\._-]?)|(android), IGNORECASE
RE_ANDROID_CHANGES(s) == \/ SpaceThenI(s, <<"a", "a", "r">>)
                         \/ ContainsI(s, <<"j", "a", "v", "a">>)
                         \/ ContainsI(s, <<"a", "n", "d", "r", "o", "i", "d">>)

\* \s(java-?script)|(js)[\s,!\?\._-]?, IGNORECASE
RE_JS_CHANGES(s) == \/ SpaceThenI(s, <<"j", "a", "v", "a", "s", "c", "r", "i", "p", "t">>)
                    \/ SpaceThenI(s, <<"j", "a", "v", "a", "-", "s", "c", "r", "i", "p", "t">>)
                    \/ ContainsI(s, <<"j", "s">>)

\* \spython[\s,!\?\._-]?, IGNORECASE
RE_PYTHON_CHANGES(s) == SpaceThenI(s, <<"p", "y", "t", "h", "o", "n">>)

\* \sfix(ed)?, IGNORECASE
RE_BUG_FIX(s) == SpaceThenI(s, <<"f", "i", "x">>)

\* dependenc(ies|y)[\s,!\?\._-]?, IGNORECASE
RE_DEPS(s) == LET l == LowerAll(s) IN \E i \in 1..Len(l) : MatchAt(l, i, <<"d", "e", "p", "e", "n", "d", "e", "n", "c">>) /\ (MatchAt(l, i + 9, <<"i", "e", "s">>) \/ MatchAt(l, i + 9, <<"y">>))

\* \sios[\s,!\?\._-]?, IGNORECASE
RE_IOS(s) == SpaceThenI(s, <<"i", "o", "s">>)

\* bazel, IGNORECASE
RE_BAZEL(s) == ContainsI(s, <<"b", "a", "z", "e", "l">>)

\* re.match(r"Add(ed)?", line, re.IGNORECASE)
MatchAdd(s) == MatchAtI(s, 1, <<"a", "d", "d">>)

\* re.match(r"Updated?", line, re.IGNORECASE)
MatchUpdate(s) == MatchAtI(s, 1, <<"u", "p", "d", "a", "t", "e">>)

\* re.match(RE_GIT_MERGE, message): ^Merged.*  (case-sensitive)
RE_GIT_MERGE(s) == StartsWith(s, <<"M", "e", "r", "g", "e", "d">>)

\* re.match(RE_INTERNAL_CHANGES, message), IGNORECASE:
\* (Code Format(ted|ting)?)|(Updated? Format(ting)?)|formatting|.*\.yaml|.*\.md
RE_INTERNAL_CHANGES(s) == LET l == LowerAll(s) IN \/ MatchAt(l, 1, <<"c", "o", "d", "e", " ", "f", "o", "r", "m", "a", "t">>)
                                                  \/ MatchAt(l, 1, <<"u", "p", "d", "a", "t", "e", " ", "f", "o", "r", "m", "a", "t">>)
                                                  \/ MatchAt(l, 1, <<"u", "p", "d", "a", "t", "e", "d", " ", "f", "o", "r", "m", "a", "t">>)
                                                  \/ MatchAt(l, 1, <<"f", "o", "r", "m", "a", "t", "t", "i", "n", "g">>)
                                                  \/ Contains(l, <<".", "y", "a", "m", "l">>)
                                                  \/ Contains(l, <<".", "m", "d">>)

\* re.match(r"^Internal\s?.*\s?change", message, re.IGNORECASE)
MatchInternalChange(s) == LET l == LowerAll(s) IN MatchAt(l, 1, <<"i", "n", "t", "e", "r", "n", "a", "l">>) /\ \E j \in 9..Len(l) : MatchAt(l, j, <<"c", "h", "a", "n", "g", "e">>)

(***************************************************************************)
(* check_fine_grained_framework_items(message): the framework signal.      *)
(***************************************************************************)
check_fine_grained_framework_items(message) == RE_OPTIONS(message) \/ RE_CALCULATOR(message) \/ RE_SUPPORT_FOR(message)

(***************************************************************************)
(* State.                                                                  *)
(***************************************************************************)
VARIABLES
    \* sentence(): the text given, and what each call in a row returned
    sentence_in, sentence_out,
    \* process_notes(): its argument, the loop's position and variable, the
    \* place in the loop body, the lists it fills, each list's length when
    \* the current title was taken from notes
    \* (mark), and the framework_changes list built after the loop
    notes, idx, line, pc, buckets, mark, framework_changes,
    \* catalogue_rough_notes(): what `git show` gives for each hash of the
    \* range, the place in the function, the Commit under construction, the
    \* valid commits' messages, the notes collected, the errors printed
    commit_history, cpc, cidx, commit, commits, rough_notes, printed,
    \* notes_from_template(): its arguments and the text returned (as lines)
    template_args, template_out

sentVars == <<sentence_in, sentence_out>>

procVars == <<notes, idx, line, pc, buckets, mark, framework_changes>>

collVars == <<commit_history, cpc, cidx, commit, commits, rough_notes, printed>>

tmplVars == <<template_args, template_out>>

vars == <<sentVars, procVars, collVars, tmplVars>>

\* the empty lists process_notes starts with (source lines 377-381)
EmptyBuckets == [android_changes |-> <<>>, ios_changes |-> <<>>, js_changes |-> <<>>, python_changes |-> <<>>, framework_items |-> <<>>, build_changes |-> <<>>, added_calculators |-> <<>>, added_support |-> <<>>, added_options |-> <<>>, bazel_changes |-> <<>>, bug_fixes |-> <<>>, deps |-> <<>>]

Lengths(b) == [n \in DOMAIN b |-> Len(b[n])]

\* the variables of an operation that is not running
SentIdle == sentence_in = <<>> /\ sentence_out = <<>>

ProcIdle == notes = <<>> /\ idx = 0 /\ line = <<>> /\ pc = "idle" /\ buckets = EmptyBuckets /\ mark = Lengths(EmptyBuckets) /\ framework_changes = <<>>

CollIdle == commit_history = <<>> /\ cpc = "idle" /\ cidx = 0 /\ commit = [message |-> <<>>, commit_lines |-> <<>>, author |-> <<>>] /\ commits = <<>> /\ rough_notes = <<>> /\ printed = 0

TmplIdle == template_args = [n \in {} |-> <<>>] /\ template_out = <<>>

(***************************************************************************)
(* SpecSentence: sentence() applied to a text, then to its own result, as  *)
(* parse_framework_changes does (line = sentence(line), up to three times).*)
(***************************************************************************)
SentenceAlphabet == {"a", "A", " ", "."}

SentenceInputs == UNION {[1..n -> SentenceAlphabet] : n \in 0..MaxLen}

InitSentence == sentence_in \in SentenceInputs /\ sentence_out = <<>> /\ ProcIdle /\ CollIdle /\ TmplIdle

CallSentence == /\ Len(sentence_out) < MaxCalls
                /\ \A k \in 1..Len(sentence_out) : sentence_out[k] # IndexError
                /\ sentence_out' = Append(sentence_out, sentence(IF sentence_out = <<>> THEN sentence_in ELSE sentence_out[Len(sentence_out)]))
                /\ UNCHANGED <<sentence_in, procVars, collVars, tmplVars>>

NextSentence == CallSentence

SpecSentence == InitSentence /\ [][NextSentence]_vars

(***************************************************************************)
(* Commit.valid_release_note(): the message is not empty (an assert), and  *)
(* matches none of the merge, internal-change and Internal...change        *)
(* patterns at its start.                                                  *)
(***************************************************************************)
valid_release_note(message) == ~RE_GIT_MERGE(message) /\ ~RE_INTERNAL_CHANGES(message) /\ ~MatchInternalChange(message)

(***************************************************************************)
(* The helpers of process_notes.  The lists they append to are passed as   *)
(* the record b of all the lists; `collection` names one of them.  The     *)
(* regex parameter of parse_framework_changes and added_to_section_notes   *)
(* is not read by their bodies and is left out.                            *)
(***************************************************************************)
Put(b, collection, text) == [b EXCEPT ![collection] = Append(@, text)]

\* parse_framework_changes is three `if`s in a row, the `else` belonging to
\* the last one only; each branch taken rebinds the local `line`, which the
\* next test then reads.  The third `if` and its `else`:
parse_support(b, message) == IF RE_SUPPORT_FOR(message) THEN Put(b, "added_support", sentence(message)) ELSE Put(b, "framework_items", sentence(message))

\* the second `if`, then the third
parse_calculator(b, message) == IF RE_CALCULATOR(message) THEN parse_support(Put(b, "added_calculators", sentence(message)), sentence(message)) ELSE parse_support(b, message)

\* the first `if`, then the others
parse_framework_changes(b, message) == IF RE_OPTIONS(message) THEN parse_calculator(Put(b, "added_options", sentence(message)), sentence(message)) ELSE parse_calculator(b, message)

\* a variant without the framework-signal test: the title always goes to
\* the collection
added_to_section_notes_unchecked(b, message, collection) == [b |-> Put(b, collection, sentence(message)), ret |-> TRUE]

\* the lists after the call, and the value returned
added_to_section_notes(b, message, collection) == IF check_fine_grained_framework_items(message) THEN [b |-> parse_framework_changes(b, message), ret |-> FALSE] ELSE [b |-> Put(b, collection, sentence(message)), ret |-> TRUE]

\* `not r1 and not added_to_section_notes(...)`, r1 what the first call gave:
\* the second call is made only when the first returned False
and_not_second(r1, message, collection) == IF r1.ret THEN [r1 EXCEPT !.ret = FALSE] ELSE [added_to_section_notes(r1.b, message, collection) EXCEPT !.ret = ~@]

additions_or_updates(b, message, collection) == and_not_second(added_to_section_notes(b, message, collection), message, collection)

\* re.sub(r'Add(ed)?', '', text, re.I): re.I is passed as `count`, so the
\* pattern is case-sensitive and at most int(re.I) = 2 matches are removed
RECURSIVE ReSubAdd(_, _)
ReSubAdd(text, count) == IF text = <<>> \/ count = 0 THEN text ELSE IF MatchAt(text, 1, <<"A", "d", "d", "e", "d">>) THEN ReSubAdd(SubSeq(text, 6, Len(text)), count - 1) ELSE IF MatchAt(text, 1, <<"A", "d", "d">>) THEN ReSubAdd(SubSeq(text, 4, Len(text)), count - 1) ELSE <<Head(text)>> \o ReSubAdd(Tail(text), count)

\* ', '.join(list)
RECURSIVE JoinComma(_)
JoinComma(list) == IF list = <<>> THEN <<>> ELSE IF Len(list) = 1 THEN list[1] ELSE list[1] \o <<",", " ">> \o JoinComma(Tail(list))

(***************************************************************************)
(* The note lists given to process_notes: titles made of words of the      *)
(* patterns' vocabulary joined by single spaces, as catalogue_rough_notes  *)
(* returns them: stripped, not empty, valid, no two equal titles adjacent. *)
(***************************************************************************)
Vocabulary == {<<"A", "d", "d", "e", "d">>, <<"U", "p", "d", "a", "t", "e", "d">>, <<"b", "a", "z", "e", "l">>, <<"i", "o", "s">>, <<"a", "n", "d", "r", "o", "i", "d">>, <<"j", "s">>, <<"j", "a", "v", "a", "s", "c", "r", "i", "p", "t">>, <<"p", "y", "t", "h", "o", "n">>, <<"f", "i", "x">>, <<"d", "e", "p", "e", "n", "d", "e", "n", "c", "y">>, <<"O", "p", "t", "i", "o", "n", "s">>, <<"C", "a", "l", "c", "u", "l", "a", "t", "o", "r">>, <<"s", "u", "p", "p", "o", "r", "t">>, <<"x">>}

RECURSIVE JoinWords(_, _, _)
JoinWords(ws, a, b) == IF a = b THEN ws[a] ELSE ws[a] \o <<" ">> \o JoinWords(ws, a + 1, b)

\* the titles made of the words k.. of ws, a title ending after each word j
\* with brk[j]
RECURSIVE TitlesFrom(_, _, _)
TitlesFrom(ws, brk, k) == LET e == CHOOSE j \in k..Len(ws) : (j = Len(ws) \/ brk[j]) /\ \A i \in k..(j - 1) : ~brk[i] IN <<JoinWords(ws, k, e)>> \o (IF e = Len(ws) THEN <<>> ELSE TitlesFrom(ws, brk, e + 1))

NoteLists == {<<>>} \cup {TitlesFrom(ws, brk, 1) : ws \in UNION {[1..n -> Vocabulary] : n \in 1..MaxWords}, brk \in [1..MaxWords -> BOOLEAN]}

InputNotes(list) == /\ \A k \in 1..Len(list) : valid_release_note(list[k])
                    /\ \A k \in 1..(Len(list) - 1) : list[k] # list[k + 1]

(***************************************************************************)
(* SpecProcess: process_notes(notes), one action per step of the loop.     *)
(***************************************************************************)
InitProcess == /\ notes \in NoteLists
               /\ InputNotes(notes)
               /\ idx = 0 /\ line = <<>> /\ pc = "for"
               /\ buckets = EmptyBuckets /\ mark = Lengths(EmptyBuckets) /\ framework_changes = <<>>
               /\ SentIdle /\ CollIdle /\ TmplIdle

\* for line in notes: the next title, if there is one
ForLine == /\ pc = "for"
           /\ idx < Len(notes)
           /\ idx' = idx + 1
           /\ line' = notes[idx + 1]
           /\ mark' = Lengths(buckets)
           /\ pc' = "bazel"
           /\ UNCHANGED <<notes, buckets, framework_changes, sentVars, collVars, tmplVars>>

\* `if additions_or_updates(...): continue`, r what the call gave
ContinueIf(r, next) == buckets' = r.b /\ pc' = IF r.ret THEN "for" ELSE next

\* `if <test>: if additions_or_updates(..., collection): continue`
Rule(here, test, collection, next) == /\ pc = here
                                      /\ IF test
                                         THEN ContinueIf(additions_or_updates(buckets, line, collection), next)
                                         ELSE buckets' = buckets /\ pc' = next
                                      /\ UNCHANGED <<notes, idx, line, mark, framework_changes, sentVars, collVars, tmplVars>>

CheckBazel == Rule("bazel", RE_BAZEL(line), "bazel_changes", "ios")

\* the call of parse_framework_changes gives five arguments for its six
\* parameters: Python raises TypeError before the body runs
CheckIOS == /\ pc = "ios"
            /\ IF RE_IOS(line)
               THEN IF check_fine_grained_framework_items(line)
                    THEN pc' = "TypeError" /\ UNCHANGED <<buckets, line>>
                    ELSE IF StartsWith(line, <<"i", "O", "S">>) \/ StartsWith(line, <<"i", "o", "s">>)
                         THEN /\ buckets' = Put(buckets, "ios_changes", Replace(line, <<"i", "o", "s">>, <<"i", "O", "S">>))
                              /\ line' = line
                              /\ pc' = "android"
                         ELSE /\ line' = sentence(line)
                              /\ buckets' = Put(buckets, "ios_changes", Replace(sentence(line), <<"i", "o", "s">>, <<"i", "O", "S">>))
                              /\ pc' = "android"
               ELSE pc' = "android" /\ UNCHANGED <<buckets, line>>
            /\ UNCHANGED <<notes, idx, mark, framework_changes, sentVars, collVars, tmplVars>>

\* a variant of the Android rule without `and not re.search(RE_JS_CHANGES, line)`
CheckAndroid_no_js_test == Rule("android", RE_ANDROID_CHANGES(line), "android_changes", "js")

CheckAndroid == Rule("android", RE_ANDROID_CHANGES(line) /\ ~RE_JS_CHANGES(line), "android_changes", "js")

CheckJs == Rule("js", ~RE_ANDROID_CHANGES(line) /\ RE_JS_CHANGES(line), "js_changes", "python")

CheckPython == Rule("python", RE_PYTHON_CHANGES(line), "python_changes", "bugfix")

CheckBugFix == Rule("bugfix", RE_BUG_FIX(line), "bug_fixes", "deps")

CheckDeps == Rule("deps", RE_DEPS(line), "deps", "add")

\* `if re.match(<verb>, line): parse_framework_changes(...); continue`
Fallback(here, test, next) == /\ pc = here
                              /\ IF test
                                 THEN buckets' = parse_framework_changes(buckets, line) /\ pc' = "for"
                                 ELSE buckets' = buckets /\ pc' = next
                              /\ UNCHANGED <<notes, idx, line, mark, framework_changes, sentVars, collVars, tmplVars>>

CheckAdd == Fallback("add", MatchAdd(line), "update")

CheckUpdate == Fallback("update", MatchUpdate(line), "for")

\* after the loop: framework_changes is built and the lists are returned
Return == /\ pc = "for"
          /\ idx = Len(notes)
          /\ framework_changes' = <<<<"A", "d", "d", "e", "d", " ">> \o JoinComma([k \in 1..Len(buckets.added_options) |-> ReSubAdd(buckets.added_options[k], 2)]), <<"A", "d", "d", "e", "d", " ">> \o JoinComma([k \in 1..Len(buckets.added_calculators) |-> ReSubAdd(buckets.added_calculators[k], 2)])>> \o buckets.framework_items \o buckets.added_support
          /\ pc' = "done"
          /\ UNCHANGED <<notes, idx, line, buckets, mark, sentVars, collVars, tmplVars>>

NextProcess == ForLine \/ CheckBazel \/ CheckIOS \/ CheckAndroid \/ CheckJs \/ CheckPython \/ CheckBugFix \/ CheckDeps \/ CheckAdd \/ CheckUpdate \/ Return

SpecProcess == InitProcess /\ [][NextProcess]_vars

(***************************************************************************)
(* Commit(hash).  commit_history[i] stands for the i-th hash of the range  *)
(* by what `git show -s --pretty=short <hash>` does for it: it exits       *)
(* non-zero (CalledProcessError), or prints the lines ShowLines(title).    *)
(***************************************************************************)
CalledProcessError == <<"CalledProcessError">>

\* commit <hash> / Author: <name> <<handle>@<domain>> / blank / the title,
\* indented by four spaces / blank
ShowLines(title) == <<<<"c", "o", "m", "m", "i", "t", " ", "h">>, <<"A", "u", "t", "h", "o", "r", ":", " ", "N", " ", "<", "a", "-", "b", "@", "c", ">">>, <<>>, <<" ", " ", " ", " ">> \o title, <<>>>>

\* get_commit_details(): commit_lines stays [] when the query fails
get_commit_details(shown) == IF shown = CalledProcessError THEN <<>> ELSE shown

\* parse_commit_title(): self.commit_lines[3].strip(); the index is out of
\* range when there are fewer than four lines
parse_commit_title(commit_lines) == IF Len(commit_lines) < 4 THEN IndexError ELSE Strip(commit_lines[4], Whitespace)

\* [a-zA-Z\-]
IsHandleChar(c) == c = "-" \/ c \in DOMAIN UpperOf \/ c \in DOMAIN LowerOf

\* RE_GIT_COMMIT_AUTHOR.match(l): ^Author:.*<(?P<author>[a-zA-Z\-]+)@.*>$ ;
\* the positions i of a "<" that is followed by handle characters and an "@"
AuthorStarts(l) == IF StartsWith(l, <<"A", "u", "t", "h", "o", "r", ":">>) /\ l[Len(l)] = ">" THEN {i \in 8..Len(l) : l[i] = "<" /\ \E j \in (i + 2)..(Len(l) - 1) : l[j] = "@" /\ \A k \in (i + 1)..(j - 1) : IsHandleChar(l[k])} ELSE {}

\* m.group("author"): .* is greedy, so the match uses the last such "<"
AuthorGroup(l, i) == SubSeq(l, i + 1, (CHOOSE j \in (i + 2)..(Len(l) - 1) : l[j] = "@" /\ \A k \in (i + 1)..(j - 1) : IsHandleChar(l[k])) - 1)

LastOf(set) == CHOOSE i \in set : \A o \in set : o <= i

\* parse_author(): the group of the first line that matches, "" when no
\* line matches
RECURSIVE parse_author(_)
parse_author(commit_lines) == IF commit_lines = <<>> THEN <<>> ELSE IF AuthorStarts(Head(commit_lines)) # {} THEN AuthorGroup(Head(commit_lines), LastOf(AuthorStarts(Head(commit_lines)))) ELSE parse_author(Tail(commit_lines))

(***************************************************************************)
(* SpecCollect: catalogue_rough_notes, one action per iteration of each of *)
(* its two loops.  get_git_commits_between_commits has returned the range. *)
(***************************************************************************)
CommitTitles == {<<"A">>, <<"B">>, <<"M", "e", "r", "g", "e", "d", " ", "x">>}

ShowResults == {CalledProcessError} \cup {ShowLines(t) : t \in CommitTitles}

NoCommit == [message |-> <<>>, commit_lines |-> <<>>, author |-> <<>>]

InitCollect == /\ commit_history \in UNION {[1..n -> ShowResults] : n \in 0..MaxCommits}
               /\ cpc = "commits" /\ cidx = 0 /\ commit = NoCommit
               /\ commits = <<>> /\ rough_notes = <<>> /\ printed = 0
               /\ SentIdle /\ ProcIdle /\ TmplIdle

\* for commit_hash in commit_history: commit = Commit(commit_hash);
\* if commit.valid_release_note(): commits.append(commit)
LoadCommit == /\ cpc = "commits"
              /\ cidx < Len(commit_history)
              /\ cidx' = cidx + 1
              /\ printed' = IF commit_history[cidx + 1] = CalledProcessError THEN printed + 1 ELSE printed
              /\ LET lines == get_commit_details(commit_history[cidx + 1])
                     title == parse_commit_title(lines)
                 IN  IF title = IndexError
                     THEN /\ commit' = [message |-> <<>>, commit_lines |-> lines, author |-> <<>>]
                          /\ cpc' = "IndexError"
                          /\ commits' = commits
                     ELSE /\ commit' = [message |-> title, commit_lines |-> lines, author |-> parse_author(lines)]
                          /\ cpc' = IF Len(title) > 0 THEN "commits" ELSE "AssertionError"
                          /\ commits' = IF Len(title) > 0 /\ valid_release_note(title) THEN Append(commits, title) ELSE commits
              /\ UNCHANGED <<commit_history, rough_notes, sentVars, procVars, tmplVars>>

\* the first loop is over
EndCommits == /\ cpc = "commits"
              /\ cidx = Len(commit_history)
              /\ cpc' = "notes"
              /\ cidx' = 0
              /\ UNCHANGED <<commit_history, commit, commits, rough_notes, printed, sentVars, procVars, tmplVars>>

\* a variant that skips a title found anywhere in notes, not only at its end
CollectNote_global_dedup == /\ cpc = "notes"
                            /\ cidx < Len(commits)
                            /\ cidx' = cidx + 1
                            /\ rough_notes' = IF \E k \in 1..Len(rough_notes) : rough_notes[k] = commits[cidx + 1] THEN rough_notes ELSE Append(rough_notes, commits[cidx + 1])
                            /\ UNCHANGED <<commit_history, cpc, commit, commits, printed, sentVars, procVars, tmplVars>>

\* for commit in commits: skip it when notes[-1] == commit.message
CollectNote == /\ cpc = "notes"
               /\ cidx < Len(commits)
               /\ cidx' = cidx + 1
               /\ rough_notes' = IF Len(rough_notes) > 0 /\ rough_notes[Len(rough_notes)] = commits[cidx + 1] THEN rough_notes ELSE Append(rough_notes, commits[cidx + 1])
               /\ UNCHANGED <<commit_history, cpc, commit, commits, printed, sentVars, procVars, tmplVars>>

\* return notes
ReturnNotes == /\ cpc = "notes"
               /\ cidx = Len(commits)
               /\ cpc' = "returned"
               /\ UNCHANGED <<commit_history, cidx, commit, commits, rough_notes, printed, sentVars, procVars, tmplVars>>

NextCollect == LoadCommit \/ EndCommits \/ CollectNote \/ ReturnNotes

SpecCollect == InitCollect /\ [][NextCollect]_vars

(***************************************************************************)
(* SpecTemplate: notes_from_template.  The text is kept as its lines (the  *)
(* text split at "\n"); the entries hold no line break and no heading.     *)
(***************************************************************************)
Entries == {"x"}

Lists == UNION {[1..n -> Entries] : n \in 0..MaxItems}

Params == {"bazel_changes", "android_changes", "ios_changes", "js_changes", "python_changes", "bug_fixes", "framework_changes", "build_changes", "deps_changes"}

\* "\n".join(["- " + item for item in list]), as lines: one empty line for
\* an empty list
JoinedLines(list) == IF list = <<>> THEN <<"">> ELSE [k \in 1..Len(list) |-> "- " \o list[k]]

\* len() of that string
RECURSIVE JoinedLen(_)
JoinedLen(list) == IF list = <<>> THEN 0 ELSE Len("- " \o Head(list)) + (IF Len(list) > 1 THEN 1 + JoinedLen(Tail(list)) ELSE 0)

\* the f-string
Template(a) == <<"", "### Build changes">> \o JoinedLines(a.build_changes) \o <<"    ", "### Bazel changes">> \o JoinedLines(a.bazel_changes) \o <<"", "### Framework and core calculator improvements">> \o JoinedLines(a.framework_changes) \o <<"", "### MediaPipe solutions update", "This section should highlight the changes that are done specifically for any platform and don't propagate to", "other platforms.", "", "#### Android">> \o JoinedLines(a.android_changes) \o <<"", "#### iOS">> \o JoinedLines(a.ios_changes) \o <<"", "#### Javascript">> \o JoinedLines(a.js_changes) \o <<"", "#### Python">> \o JoinedLines(a.python_changes) \o <<"", "### Bug fixes">> \o JoinedLines(a.bug_fixes) \o <<"", "### MediaPipe Dependencies">> \o JoinedLines(a.deps_changes) \o <<"  ">>

\* x.replace(heading + "\n", ""): every line that is the heading and is
\* followed by a line break goes
RECURSIVE ReplaceLine(_, _)
ReplaceLine(x, heading) == IF Len(x) <= 1 THEN x ELSE IF Head(x) = heading THEN ReplaceLine(Tail(x), heading) ELSE <<Head(x)>> \o ReplaceLine(Tail(x), heading)

\* if len(<joined>) == 0: x = x.replace(heading + "\n", "")
Omit(x, list, heading) == IF JoinedLen(list) = 0 THEN ReplaceLine(x, heading) ELSE x

\* the eight `if`s, in the order of the source
notes_from_template(a) == Omit(Omit(Omit(Omit(Omit(Omit(Omit(Omit(Template(a), a.build_changes, "### Build changes"), a.bazel_changes, "### Bazel changes"), a.framework_changes, "### Framework and core calculator improvements"), a.android_changes, "#### Android"), a.ios_changes, "#### iOS"), a.bug_fixes, "### Bug fixes"), a.android_changes, "#### Android"), a.deps_changes, "### MediaPipe Dependencies")

InitTemplate == /\ template_args \in [Params -> Lists]
                /\ template_out = <<>>
                /\ SentIdle /\ ProcIdle /\ CollIdle

CallNotesFromTemplate == /\ template_out = <<>>
                         /\ DOMAIN template_args = Params
                         /\ template_out' = notes_from_template(template_args)
                         /\ UNCHANGED <<template_args, sentVars, procVars, collVars>>

NextTemplate == CallNotesFromTemplate

SpecTemplate == InitTemplate /\ [][NextTemplate]_vars

(***************************************************************************)
(* The claims.                                                             *)
(***************************************************************************)
\* the top-level category lists and the framework sub-lists of process_notes
TopLevel == {"bazel_changes", "android_changes", "ios_changes", "js_changes", "python_changes", "bug_fixes", "deps"}

SubBuckets == {"added_options", "added_calculators", "added_support", "framework_items"}

\* the title the loop of process_notes is at, and the number of entries the
\* list `name` has gained since that title was taken from notes
Title == notes[idx]

Gained(name) == Len(buckets[name]) - mark[name]

CategoryToken(t) == RE_BAZEL(t) \/ RE_IOS(t) \/ RE_ANDROID_CHANGES(t) \/ RE_JS_CHANGES(t) \/ RE_PYTHON_CHANGES(t) \/ RE_BUG_FIX(t) \/ RE_DEPS(t)

\* C1: every title of the note list is appended to at most one of the
\* top-level category lists (Bazel, iOS, Android, JavaScript, Python,
\* bug-fix, dependencies): the first category that matches claims it.
C1_OneCategoryPerTitle == idx >= 1 => Cardinality({n \in TopLevel : Gained(n) > 0}) <= 1

\* C2: when `git show` fails for a commit (the error is printed), the run
\* does not abort: catalogue_rough_notes raises nothing and goes on.
C2_FetchFailureRecovered == printed > 0 => cpc \notin {"IndexError", "AssertionError"}

\* C3: a title that carries a framework signal (it matches the Options,
\* Calculator or support pattern) is never appended to a top-level
\* category list, whichever category tokens it also contains.
C3_SignalNeverInCategory == (idx >= 1 /\ check_fine_grained_framework_items(Title)) => \A n \in TopLevel : Gained(n) = 0

\* a title with a framework signal and a category token has been processed
\* and went to a framework sub-list
C3_Witness == /\ pc = "for" /\ idx >= 1
              /\ check_fine_grained_framework_items(Title) /\ CategoryToken(Title)
              /\ \E n \in SubBuckets : Gained(n) > 0

\* the sections of the rendered text: the argument and its heading
Sections == {<<"build_changes", "### Build changes">>, <<"bazel_changes", "### Bazel changes">>, <<"framework_changes", "### Framework and core calculator improvements">>, <<"android_changes", "#### Android">>, <<"ios_changes", "#### iOS">>, <<"js_changes", "#### Javascript">>, <<"python_changes", "#### Python">>, <<"bug_fixes", "### Bug fixes">>, <<"deps_changes", "### MediaPipe Dependencies">>}

\* C4: the text notes_from_template returns holds no heading of a section
\* whose list is empty, for each of the nine sections.
C4_EmptySectionOmitted == template_out # <<>> => \A sec \in Sections : template_args[sec[1]] = <<>> => \A k \in 1..Len(template_out) : template_out[k] # sec[2]

\* C5: a title that matches the JavaScript pattern is never appended to the
\* Android list, a title that matches the Android pattern is never appended
\* to the JavaScript list, and no title is appended to both.
C5_AndroidJsExclusive == idx >= 1 => /\ Gained("android_changes") > 0 => ~RE_JS_CHANGES(Title)
                                     /\ Gained("js_changes") > 0 => ~RE_ANDROID_CHANGES(Title)
                                     /\ ~(Gained("android_changes") > 0 /\ Gained("js_changes") > 0)

\* a title that matches both patterns has been processed
C5_Witness == pc = "for" /\ idx >= 1 /\ RE_JS_CHANGES(Title) /\ RE_ANDROID_CHANGES(Title)

\* a sequence with each run of equal neighbours replaced by one occurrence
RECURSIVE Collapse(_)
Collapse(seq) == IF Len(seq) <= 1 THEN seq ELSE IF seq[1] = seq[2] THEN Collapse(Tail(seq)) ELSE <<seq[1]>> \o Collapse(Tail(seq))

\* C6: the list catalogue_rough_notes returns is the in-order sequence of
\* the valid commits' titles with each maximal run of consecutive equal
\* titles replaced by one occurrence; no two equal titles are adjacent in it.
C6_AdjacentCollapse == cpc = "returned" => /\ rough_notes = Collapse(commits)
                                           /\ \A k \in 1..(Len(rough_notes) - 1) : rough_notes[k] # rough_notes[k + 1]

\* the titles A, A, B, B, B, A gave A, B, A
C6_Witness == /\ cpc = "returned"
              /\ commits = <<<<"A">>, <<"A">>, <<"B">>, <<"B">>, <<"B">>, <<"A">>>>
              /\ rough_notes = <<<<"A">>, <<"B">>, <<"A">>>>

\* an already-capitalized text: its first character is an upper-case letter
Capitalized(text) == Len(text) > 0 /\ IsUpper(text[1])

\* a single sentence: words with no period in them, then the periods that
\* end it right after the last word, then at most trailing whitespace
SingleSentence(text) == \E b \in 1..Len(text) : \E d \in b..Len(text) : /\ \A k \in 1..b : text[k] # "."
                                                                        /\ ~IsSpace(text[b])
                                                                        /\ \A k \in (b + 1)..d : text[k] = "."
                                                                        /\ \A k \in (d + 1)..Len(text) : IsSpace(text[k])

\* C7: sentence is idempotent on an already-capitalized single sentence x:
\* sentence(sentence(x)) = sentence(x).
C7_SentenceIdempotent == (Capitalized(sentence_in) /\ SingleSentence(sentence_in) /\ Len(sentence_out) >= 2) => sentence_out[2] = sentence_out[1]

\* sentence has been applied twice to such a text, and changed it
C7_Witness == /\ Capitalized(sentence_in) /\ SingleSentence(sentence_in)
              /\ Len(sentence_out) >= 2
              /\ sentence_out[1] # sentence_in

\* C8: a title with a standalone ios token and a framework signal that the
\* Bazel rule did not claim is diverted to framework sub-classification: it
\* is not appended to the iOS list and no error is raised for it.
C8_IosSignalDiverted == (idx >= 1 /\ RE_IOS(Title) /\ check_fine_grained_framework_items(Title) /\ ~RE_BAZEL(Title)) => (pc # "TypeError" /\ Gained("ios_changes") = 0)

\* C9: a title is appended to the generic framework-items list only when it
\* matches none of the Options, Calculator and support patterns.
C9_GenericOnlyWithoutPattern == (idx >= 1 /\ Gained("framework_items") > 0) => (~RE_OPTIONS(Title) /\ ~RE_CALCULATOR(Title) /\ ~RE_SUPPORT_FOR(Title))

\* C10: for a title with a framework signal, framework sub-classification
\* runs once: every framework sub-list gains at most one entry for it.
C10_SubClassifiedOnce == (idx >= 1 /\ check_fine_grained_framework_items(Title)) => \A n \in SubBuckets : Gained(n) <= 1

=============================================================================
